---- MODULE Spec2Model ----
(***************************************************************************)
(* Voice-call orchestration core of skillhq/concierge: the CallServer      *)
(* (call-server.ts) with its session table, control clients, telephony     *)
(* webhooks, media-plane handshake, call initiation and shutdown.  The     *)
(* CallSession class (call-session.ts) is modelled from its contract.      *)
(***************************************************************************)
EXTENDS Integers, Sequences, FiniteSets, TLC

\* ------------------------------------------------------------------ bounds
MaxReq == 2        \* initiate_call / POST /call requests over the run
MaxConn == 2       \* media-plane connections over the run
MaxClient == 2     \* control-plane connections over the run
MaxPending == 2    \* control hangups in flight on one session
MaxInbox == 3      \* messages recorded per control client

\* what each specification below lets the environment do
InReqs == 2        \* SpecInitiate: requests
InClients == 1     \* SpecInitiate: control clients
LcCalls == 2       \* SpecLifecycle: requests
LcConns == 1       \* SpecLifecycle: media connections
LcClients == 1     \* SpecLifecycle: control clients
WhCalls == 1       \* SpecWebhook: requests
WhClients == 1     \* SpecWebhook: control clients
MdCalls == 1       \* SpecMedia: requests
MdConns == 2       \* SpecMedia: media connections
MdClients == 1     \* SpecMedia: control clients
CtCalls == 1       \* SpecControl: requests
CtClients == 2     \* SpecControl: control clients
BcCalls == 1       \* SpecBroadcast: requests
BcConns == 1       \* SpecBroadcast: media connections
BcClients == 2     \* SpecBroadcast: control clients
StCalls == 2       \* SpecStop: requests
StClients == 1     \* SpecStop: control clients
HtReqs == 1        \* SpecHttp: requests taken into initiateCallInternal
FlReqs == 1        \* SpecFailure: requests
OrCalls == 1       \* SpecOrder: requests
OrConns == 1       \* SpecOrder: media-plane connections
IdCalls == 2       \* SpecIndep: requests
IdConns == 1       \* SpecIndep: media-plane connections
IdClients == 1     \* SpecIndep: control clients
MaxRuns == 3       \* SpecLocal: runs of the local dependency preflights
SgCalls == 1       \* SpecSignal: calls
SgConns == 1       \* SpecSignal: media-plane connections
SgClients == 1     \* SpecSignal: control clients
GsCalls == 1       \* SpecStatus: calls
GsConns == 2       \* SpecStatus: media-plane connections
RpReqs == 2        \* SpecReply: initiate_call requests
RpClients == 2     \* SpecReply: control clients

Reqs == 1..MaxReq
CallIds == 1..MaxReq
Conns == 1..MaxConn
Clients == 1..MaxClient

\* the three preflight checks of initiateCallInternal, in array order
Checks == <<"twilio", "deepgram", "elevenlabs">>
CheckIdx == 1..3

\* what can make initiateCallInternal throw: a failed check, or the origination
Failures == {"twilio", "deepgram", "elevenlabs", "origination"}

\* provider texts in which the message of a failed check says "preflight" and
\* the error of a failed origination does not
PlainWording == [f \in Failures |-> f # "origination"]

Signatures == {"none", "valid", "invalid"}
CallStatuses == {"queued", "ringing", "in-progress", "completed", "busy", "failed", "no-answer"}
FailureStatuses == {"busy", "failed", "no-answer"}
TerminalStatuses == {"completed"} \cup FailureStatuses

\* limits of the fields of a POST /call body
MAX_PHONE_LENGTH == 20
MAX_GOAL_LENGTH == 1000
MAX_CONTEXT_LENGTH == 5000

\* A field of a parsed POST /call body: absent, a string of some length, or
\* another truthy value that is no string (a number: it has no length).
Absent == [t |-> "absent", len |-> 0]
Str(n) == [t |-> "string", len |-> n]
Other == [t |-> "other", len |-> 0]

\* JavaScript truthiness of a field: the empty string and undefined are falsy
Truthy(f) == IF f.t = "string" THEN f.len > 0 ELSE f.t = "other"

\* no POST /call body (steps of other handlers)
NoBody == [json |-> "-", phoneNumber |-> Absent, goal |-> Absent, context |-> Absent]

\* the body `null`: valid JSON that is no object
NullBody == [json |-> "null", phoneNumber |-> Absent, goal |-> Absent, context |-> Absent]

\* bodies sent to POST /call: each field absent, no string, empty, at its
\* limit or one character past it
Bodies ==
    {NullBody} \cup
    [json : {"object"},
     phoneNumber : {Absent, Other, Str(0), Str(MAX_PHONE_LENGTH), Str(MAX_PHONE_LENGTH + 1)},
     goal : {Absent, Other, Str(0), Str(MAX_GOAL_LENGTH), Str(MAX_GOAL_LENGTH + 1)},
     context : {Absent, Other, Str(MAX_CONTEXT_LENGTH), Str(MAX_CONTEXT_LENGTH + 1)}]

\* close codes of the media plane
CloseBadHandshake == 1008
CloseUnknownCall == 1008
CloseInitFailed == 1011

\* ---------------------------------------------- local dependency preflights
\* What spawnSync returns: `error` when the command could not be spawned
\* (ENOENT: it does not exist) or was cut short (timeout, buffer), `status`
\* the exit code ("null": the process did not run or was ended by a signal),
\* `stderr` whether it wrote anything to its error stream.
SpawnOutcomes ==
    {o \in [error : {"none", "ENOENT", "other"}, status : {"null", "0", "1"},
            stderr : BOOLEAN] :
        /\ o.error = "ENOENT" => o.status = "null"
        /\ o.status = "null" => ~o.stderr}

\* (mutant) a command that does not exist is reported like any other error
checkCommandAnyError(out) ==
    IF out.error # "none" THEN [ok |-> FALSE, reason |-> "error_message"]
    ELSE IF out.status = "0" THEN [ok |-> TRUE, reason |-> "-"]
    ELSE [ok |-> FALSE,
          reason |-> IF out.status # "null" THEN "exit_status" ELSE "unknown_failure"]

\* checkCommand(command, args), out being what spawnSync returned
checkCommand(out) ==
    IF out.error # "none"
    THEN IF out.error = "ENOENT" THEN [ok |-> FALSE, reason |-> "not_found"]
         ELSE [ok |-> FALSE, reason |-> "error_message"]
    ELSE IF out.status = "0" THEN [ok |-> TRUE, reason |-> "-"]
    ELSE [ok |-> FALSE,
          reason |-> IF out.status # "null" THEN "exit_status" ELSE "unknown_failure"]

\* (mutant) the smoke test passes whenever ffmpeg could be spawned
checkFfmpegMp3DecodeSpawned(out) ==
    IF out.error # "none" THEN [ok |-> FALSE, reason |-> "error_message"]
    ELSE [ok |-> TRUE, reason |-> "-"]

\* checkFfmpegMp3Decode(), out being what spawnSync returned for the decode
\* of the embedded sample
checkFfmpegMp3Decode(out) ==
    IF out.error # "none" THEN [ok |-> FALSE, reason |-> "error_message"]
    ELSE IF out.status = "0" THEN [ok |-> TRUE, reason |-> "-"]
    ELSE [ok |-> FALSE, reason |-> IF out.stderr THEN "stderr" ELSE "exit_status"]

\* one spawnSync call: the command line and what came back
Spawned(cmd, out) == [cmd |-> cmd, out |-> out]

\* a LocalDependencyPreflightResult (message: which of the texts it is) and
\* the spawnSync calls that were made to produce it
LocalResult(dep, ok, message, spawned) ==
    [dependency |-> dep, ok |-> ok, message |-> message, spawned |-> spawned]

\* preflightFfmpeg(): v is what `ffmpeg -version` returns, d what the decode
\* of the sample returns if it is run
preflightFfmpeg(v, d) ==
    IF checkCommand(v).ok
    THEN IF ~checkFfmpegMp3Decode(d).ok
         THEN LocalResult("ffmpeg", FALSE, "cannot decode MP3",
                          <<Spawned("ffmpeg -version", v), Spawned("ffmpeg decode", d)>>)
         ELSE LocalResult("ffmpeg", TRUE, "MP3 decode works",
                          <<Spawned("ffmpeg -version", v), Spawned("ffmpeg decode", d)>>)
    ELSE IF checkCommand(v).reason = "not_found"
    THEN LocalResult("ffmpeg", FALSE, "is not installed", <<Spawned("ffmpeg -version", v)>>)
    ELSE LocalResult("ffmpeg", FALSE, "could not run", <<Spawned("ffmpeg -version", v)>>)

\* preflightNgrok(): v is what `ngrok version` returns
preflightNgrok(v) ==
    IF checkCommand(v).ok
    THEN LocalResult("ngrok", TRUE, "is available", <<Spawned("ngrok version", v)>>)
    ELSE IF checkCommand(v).reason = "not_found"
    THEN LocalResult("ngrok", FALSE, "is not installed", <<Spawned("ngrok version", v)>>)
    ELSE LocalResult("ngrok", FALSE, "could not run", <<Spawned("ngrok version", v)>>)

\* no local preflight has run
NoRun == [n |-> 0, res |-> LocalResult("-", FALSE, "-", <<>>)]


VARIABLES
    server,          \* "null" | "listening" | "closing" (this.server, and whether it
                     \* accepts), "crashed" once the process has terminated
    stopPc,          \* position of stop(): "idle" | "hangup" | "closing"
    stopIter,        \* the session stop() is awaiting hangup() of (0: none)
    sessions,        \* keys of this.sessions
    status,          \* CallSession status per call identifier ("none": never created)
    callSid,         \* provider call reference recorded per session (BOOLEAN: known)
    attached,        \* media bridge attached per session
    nextCallId,      \* next identifier randomUUID() hands out
    req,             \* initiateCallInternal invocations
    placed,          \* call identifiers the telephony adapter was asked to place
    hangups,         \* control-plane hangup() calls in flight per session
    controlClients,  \* this.controlClients
    readyState,      \* WebSocket readyState per control client
    inbox,           \* messages each control client received, in order
    conn,            \* media-plane connections
    nEnded,          \* 'ended' events emitted per session
    nCallEnded,      \* server 'call_ended' events per call identifier
    nCallStarted,    \* server 'call_started' events per call identifier
    nError,          \* server 'error' events
    errorListener,   \* whether the application has a listener on the server's 'error' event
    wording,         \* per kind of failure: whether its error message contains "preflight"
    deps,            \* local dependency preflights: runs so far, and the last run
    last,            \* the handler step taken last and what it answered (when observed)
    obs              \* what this specification records: handler names, "inbox"

vars == <<server, stopPc, stopIter, sessions, status, callSid, attached, nextCallId, req,
          placed, hangups, controlClients, readyState, inbox, conn, nEnded, nCallEnded,
          nCallStarted, nError, errorListener, wording, deps, last, obs>>

\* ------------------------------------------------------------ small helpers
Min(S) == CHOOSE x \in S : \A y \in S : x <= y

Step(op, code, callId, sig, cs, who) ==
    [op |-> op, code |-> code, callId |-> callId, sig |-> sig, cs |-> cs, who |-> who,
     body |-> NoBody, stream |-> 0]

\* no observed handler took the last step
Quiet == Step("-", 0, 0, "none", "-", 0)

\* the record of a handler step, kept for the handlers under observation
Rec(op, code, callId, sig, cs, who) ==
    IF op \in obs THEN Step(op, code, callId, sig, cs, who) ELSE Quiet

\* the record of a POST /call step, with the body that was sent
RecBody(op, code, b, who) ==
    IF op \in obs THEN [Step(op, code, 0, "none", "-", who) EXCEPT !.body = b] ELSE Quiet

Msg(type, callId) == [type |-> type, callId |-> callId]

NoReq == [pc |-> "idle", origin |-> 0, pre |-> [k \in CheckIdx |-> "pending"],
          callId |-> 0, err |-> "-"]

\* inits: how many times initializeMediaStream was called with this socket
NoConn == [st |-> "new", callId |-> 0, code |-> 0, rejects |-> FALSE, inits |-> 0]

Init0 ==
    /\ server = "null"
    /\ stopPc = "idle"
    /\ stopIter = 0
    /\ sessions = {}
    /\ status = [c \in CallIds |-> "none"]
    /\ callSid = [c \in CallIds |-> FALSE]
    /\ attached = [c \in CallIds |-> FALSE]
    /\ nextCallId = 1
    /\ req = [r \in Reqs |-> NoReq]
    /\ placed = {}
    /\ hangups = [c \in CallIds |-> 0]
    /\ controlClients = {}
    /\ readyState = [c \in Clients |-> "new"]
    /\ inbox = [c \in Clients |-> <<>>]
    /\ conn = [k \in Conns |-> NoConn]
    /\ nEnded = [c \in CallIds |-> 0]
    /\ nCallEnded = [c \in CallIds |-> 0]
    /\ nCallStarted = [c \in CallIds |-> 0]
    /\ nError = 0
    /\ last = Quiet

\* ------------------------------------------------------- server: broadcast
\* what a client's record of received messages becomes when msg arrives
\* (the record keeps the first MaxInbox messages, and only under observation)
Received(q, msg) ==
    IF "inbox" \in obs /\ Len(q) < MaxInbox THEN Append(q, msg) ELSE q

\* (mutant) only the first client of the set is served
BroadcastToFirst(ib, msg) ==
    [c \in Clients |->
        IF c \in controlClients /\ readyState[c] = "open" /\ (\A d \in controlClients : c <= d)
        THEN Received(ib[c], msg) ELSE ib[c]]

\* broadcastToControl: every client of the set whose socket is OPEN gets msg
BroadcastToControl(ib, msg) ==
    [c \in Clients |->
        IF c \in controlClients /\ readyState[c] = "open" THEN Received(ib[c], msg) ELSE ib[c]]

\* ws.send on one socket (dropped unless the socket is OPEN)
SendTo(ib, c, msg) ==
    IF readyState[c] = "open" THEN [ib EXCEPT ![c] = Received(@, msg)] ELSE ib

\* ------------------------------------------------ session: status machine
\* the order of the session states ("none": no session was constructed)
Rank(st) ==
    CASE st = "none" -> 0
      [] st = "created" -> 1
      [] st = "placing" -> 2
      [] st = "ringing" -> 3
      [] st = "connected" -> 4
      [] st = "ended" -> 5

\* (mutant) the value of the webhook is applied whatever the current state
UpdateStatusLatest(cur, cs) ==
    CASE cs = "ringing" -> "ringing"
      [] cs \in {"completed", "busy", "failed", "no-answer"} -> "ended"
      [] OTHER -> cur

\* CallSession.updateStatus: a telephony status value applied to the state
\* machine; values that are no valid transition from the current state
\* are ignored.
UpdateStatus(cur, cs) ==
    CASE cs = "ringing" /\ cur \in {"created", "placing"} -> "ringing"
      [] cs = "completed" /\ cur \in {"created", "placing", "ringing", "connected"} -> "ended"
      [] cs \in FailureStatuses /\ cur \in {"created", "placing", "ringing"} -> "ended"
      [] OTHER -> cur

\* CallSession.setCallSid: the provider accepted the origination
SetCallSidStatus(cur) == IF cur = "created" THEN "placing" ELSE cur

\* (mutant) the 'ended' handler empties the table
SessionsCleared(tbl, c) == {}

\* (mutant) the 'ended' handler leaves the table alone
SessionsKept(tbl, c) == tbl

\* session.on('ended') handler of the server: this.sessions.delete(callId)
SessionsAfterEnded(tbl, c) == tbl \ {c}

\* (mutant) the handler is subscribed twice, 'call_ended' goes out twice
CallEndedEmittedTwice(n) == n + 2

\* session.on('ended') handler of the server: this.emit('call_ended', ...),
\* n being the number of 'call_ended' events emitted for the call so far
CallEndedEmitted(n) == n + 1

\* The session reaches "ended" (from a state that is not "ended"): it emits
\* 'ended' once, and the server's handler deletes it and emits 'call_ended'.
ReachEnded(c) ==
    /\ status' = [status EXCEPT ![c] = "ended"]
    /\ attached' = [attached EXCEPT ![c] = FALSE]
    /\ nEnded' = [nEnded EXCEPT ![c] = @ + 1]
    /\ sessions' = SessionsAfterEnded(sessions, c)
    /\ nCallEnded' = [nCallEnded EXCEPT ![c] = CallEndedEmitted(@)]

Accepting == server = "listening"

\* the process is running
Alive == server # "crashed"

\* ------------------------------------------------------------ start / stop
Start ==
    /\ server = "null"
    /\ stopPc = "idle"
    /\ server' = "listening"
    /\ last' = Rec("start", 0, 0, "none", "-", 0)
    /\ UNCHANGED <<obs, errorListener, wording, deps, stopPc, stopIter, sessions, status, callSid, attached, nextCallId, req,
                   placed, hangups, controlClients, readyState, inbox, conn, nEnded,
                   nCallEnded, nCallStarted, nError>>

\* Map iteration visits the live entries in insertion order, those inserted
\* during the iteration included; identifiers are inserted in increasing order.
NextToHangUp(tbl, after) == {c \in tbl : c > after}

\* the part of stop() after the hangup loop, up to server.close()
StopTail ==
    /\ readyState' = [c \in Clients |->
                        IF c \in controlClients /\ readyState[c] = "open"
                        THEN "closing" ELSE readyState[c]]
    /\ controlClients' = {}
    /\ stopIter' = 0
    /\ IF server # "null"
       THEN stopPc' = "closing" /\ server' = "closing"
       ELSE stopPc' = "idle" /\ server' = server

StopBegin ==
    /\ stopPc = "idle"
    /\ server \in {"null", "listening"}
    /\ last' = Rec("stop", 0, 0, "none", "-", 0)
    /\ IF NextToHangUp(sessions, 0) # {}
       THEN /\ stopPc' = "hangup"
            /\ stopIter' = Min(NextToHangUp(sessions, 0))
            /\ UNCHANGED <<server, sessions, controlClients, readyState>>
       ELSE /\ sessions' = {}
            /\ StopTail
    /\ UNCHANGED <<obs, errorListener, wording, deps, status, callSid, attached, nextCallId, req, placed, hangups, inbox, conn,
                   nEnded, nCallEnded, nCallStarted, nError>>

\* `await session.hangup()` of stop() completes, the loop goes on
StopHangupDone ==
    /\ Alive
    /\ stopPc = "hangup"
    /\ last' = Rec("stopHangupDone", IF status[stopIter] = "ended" THEN 0 ELSE 1,
                    stopIter, "none", "-", 0)
    /\ LET c == stopIter
           tbl == IF status[c] = "ended" THEN sessions ELSE SessionsAfterEnded(sessions, c)
       IN /\ IF status[c] = "ended"
             THEN UNCHANGED <<status, attached, nEnded, nCallEnded>>
             ELSE /\ status' = [status EXCEPT ![c] = "ended"]
                  /\ attached' = [attached EXCEPT ![c] = FALSE]
                  /\ nEnded' = [nEnded EXCEPT ![c] = @ + 1]
                  /\ nCallEnded' = [nCallEnded EXCEPT ![c] = CallEndedEmitted(@)]
          /\ IF NextToHangUp(tbl, c) # {}
             THEN /\ stopIter' = Min(NextToHangUp(tbl, c))
                  /\ sessions' = tbl
                  /\ UNCHANGED <<stopPc, server, controlClients, readyState>>
             ELSE /\ sessions' = {}
                  /\ StopTail
    /\ UNCHANGED <<obs, errorListener, wording, deps, callSid, nextCallId, req, placed, hangups, inbox, conn, nCallStarted, nError>>

\* callback of server.close()
StopClosed ==
    /\ Alive
    /\ stopPc = "closing"
    /\ server' = "null"
    /\ stopPc' = "idle"
    /\ last' = Rec("stopped", 0, 0, "none", "-", 0)
    /\ UNCHANGED <<obs, errorListener, wording, deps, stopIter, sessions, status, callSid, attached, nextCallId, req, placed,
                   hangups, controlClients, readyState, inbox, conn, nEnded, nCallEnded,
                   nCallStarted, nError>>

\* ------------------------------------------------------ initiateCallInternal
\* (mutant) Promise.race in place of Promise.all: settled when one is
AnyResolved(pre) == \E k \in CheckIdx : pre[k] # "pending"

\* Promise.all over the three preflight promises: settled when all are
AllResolved(pre) == \A k \in CheckIdx : pre[k] # "pending"

\* (mutant) the synthesis budget check is left out of the array searched
FailedPreflightOfTwo(pre) ==
    IF \E k \in {1, 2} : pre[k] = "fail"
    THEN Min({k \in {1, 2} : pre[k] = "fail"})
    ELSE 0

\* [twilio, deepgram, elevenLabs].find(result => !result.ok): index of the
\* first failed check, 0 when there is none
FailedPreflight(pre) ==
    IF \E k \in CheckIdx : pre[k] = "fail"
    THEN Min({k \in CheckIdx : pre[k] = "fail"})
    ELSE 0

\* the check results a request keeps once Promise.all has settled (kept
\* for the record only when the preflight is under observation)
Settled(pre) == IF "preflight" \in obs THEN pre ELSE [k \in CheckIdx |-> "pending"]

\* (mutant) the identifier of the first call is handed out again
ReusedCallId(n) == 1

\* randomUUID(): an identifier never handed out before
FreshCallId(n) == n

\* (mutant) the session is put in the table only when the call was placed
SessionsSetLater(tbl, c) == tbl

\* this.sessions.set(callId, session), which precedes `await initiateCall(...)`
SessionsAfterSet(tbl, c) == tbl \cup {c}

\* A request enters initiateCallInternal: the three checks are started.
\* origin 0 is POST /call, origin c > 0 the control client that sent initiate_call.
InitiateCall(r, o) ==
    /\ Accepting
    /\ req[r].pc = "idle"
    /\ \A q \in Reqs : q < r => req[q].pc # "idle"
    /\ o # 0 => (o \in controlClients /\ readyState[o] = "open")
    /\ req' = [req EXCEPT ![r] = [NoReq EXCEPT !.pc = "preflight", !.origin = o]]
    /\ last' = Rec("initiate", 0, 0, "none", "-", o)
    /\ UNCHANGED <<obs, errorListener, wording, deps, server, stopPc, stopIter, sessions, status, callSid, attached, nextCallId,
                   placed, hangups, controlClients, readyState, inbox, conn, nEnded,
                   nCallEnded, nCallStarted, nError>>

\* data.goal.length > MAX_GOAL_LENGTH
GoalTooLong(goal) == goal.len > MAX_GOAL_LENGTH

\* The input validation of handleCallRequest: the status the body is turned
\* away with, 0 when it passes.  Reading a field of `null` throws a TypeError,
\* which the catch answers 500 (its message does not say "preflight").
Validate(b) ==
    IF b.json = "null" THEN 500
    ELSE IF ~Truthy(b.phoneNumber) THEN 400
    ELSE IF b.phoneNumber.t # "string" THEN 400
    ELSE IF ~Truthy(b.goal) THEN 400
    ELSE IF b.goal.t # "string" THEN 400
    ELSE IF b.phoneNumber.len > MAX_PHONE_LENGTH THEN 400
    ELSE IF GoalTooLong(b.goal) THEN 400
    ELSE IF Truthy(b.context) /\ b.context.len > MAX_CONTEXT_LENGTH THEN 400
    ELSE 0

\* POST /call with body b: turned away by the validation, or taken into
\* initiateCallInternal as request r
CallRequest(r, b) ==
    /\ Accepting
    /\ IF Validate(b) = 0
       THEN /\ req[r].pc = "idle"
            /\ \A q \in Reqs : q < r => req[q].pc # "idle"
            /\ req' = [req EXCEPT ![r] = [NoReq EXCEPT !.pc = "preflight", !.origin = 0]]
            /\ last' = RecBody("callRequest", 0, b, r)
       ELSE /\ UNCHANGED req
            /\ last' = RecBody("callRequest", Validate(b), b, 0)
    /\ UNCHANGED <<obs, errorListener, wording, deps, server, stopPc, stopIter, sessions, status, callSid,
                   attached, nextCallId, placed, hangups, controlClients, readyState, inbox,
                   conn, nEnded, nCallEnded, nCallStarted, nError>>

\* GET /status/<q>: the state of the session the table holds for q, or 404
CallStatusCheck(q) ==
    /\ Accepting
    /\ last' = IF q \in sessions
               THEN Rec("callStatus", 200, q, "none", status[q], 0)
               ELSE Rec("callStatus", 404, q, "none", "-", 0)
    /\ UNCHANGED <<obs, errorListener, wording, deps, server, stopPc, stopIter, sessions, status, callSid,
                   attached, nextCallId, req, placed, hangups, controlClients, readyState,
                   inbox, conn, nEnded, nCallEnded, nCallStarted, nError>>

\* one preflight check of a request resolves, ok or not ok
PreflightResolves(r, k, ok) ==
    /\ Alive
    /\ req[r].pc = "preflight"
    /\ req[r].pre[k] = "pending"
    /\ req' = [req EXCEPT ![r].pre[k] = IF ok THEN "ok" ELSE "fail"]
    /\ last' = Rec("preflight", 0, 0, "none", Checks[k], r)
    /\ UNCHANGED <<obs, errorListener, wording, deps, server, stopPc, stopIter, sessions, status, callSid, attached, nextCallId,
                   placed, hangups, controlClients, readyState, inbox, conn, nEnded,
                   nCallEnded, nCallStarted, nError>>

\* the first check of a request still unresolved (1 when none is)
FirstPending(pre) ==
    IF \E k \in CheckIdx : pre[k] = "pending"
    THEN Min({k \in CheckIdx : pre[k] = "pending"})
    ELSE 1

\* (mutant) every failure is answered 500
StatusCodeAlways500(err) == 500

\* catch of handleCallRequest: 400 when the message of the error contains
\* "preflight" (in any case), else 500
StatusCode(err) == IF wording[err] THEN 400 ELSE 500

\* the error of a failed request reaches its caller: the HTTP response, or the
\* error reply of handleControlConnection's catch to the originating socket
\* (mutant) the error is broadcast to every control client
ReplyErrorToAll(ib, o) == IF o = 0 THEN ib ELSE BroadcastToControl(ib, Msg("error", 0))

ReplyError(ib, o) == IF o = 0 THEN ib ELSE SendTo(ib, o, Msg("error", 0))

\* the continuation after `await Promise.all(...)`, up to `await initiateCall(...)`
AfterPreflight(r) ==
    /\ Alive
    /\ req[r].pc = "preflight"
    /\ AllResolved(req[r].pre)
    /\ IF FailedPreflight(req[r].pre) # 0
       THEN /\ req' = [req EXCEPT ![r].pc = "failed", ![r].pre = Settled(@),
                                   ![r].err = Checks[FailedPreflight(req[r].pre)]]
            /\ inbox' = ReplyError(inbox, req[r].origin)
            /\ last' = Rec("preflightFailed", StatusCode(Checks[FailedPreflight(req[r].pre)]),
                            0, "none",
                            Checks[FailedPreflight(req[r].pre)], r)
            /\ UNCHANGED <<sessions, status, callSid, attached, nextCallId, placed>>
       ELSE LET c == FreshCallId(nextCallId) IN
            /\ nextCallId' = nextCallId + 1
            /\ status' = [status EXCEPT ![c] = "created"]
            /\ callSid' = [callSid EXCEPT ![c] = FALSE]
            /\ attached' = [attached EXCEPT ![c] = FALSE]
            /\ sessions' = SessionsAfterSet(sessions, c)
            /\ placed' = placed \cup {c}
            /\ req' = [req EXCEPT ![r].pc = "originating", ![r].pre = Settled(@),
                                   ![r].callId = c]
            /\ last' = Rec("originate", 0, c, "none", "-", r)
            /\ UNCHANGED inbox
    /\ UNCHANGED <<obs, errorListener, wording, deps, server, stopPc, stopIter, hangups, controlClients, readyState, conn,
                   nEnded, nCallEnded, nCallStarted, nError>>

\* (mutant) the initiate_call handler also answers its own socket
InitiateReplyDirect(ib, o, msg) == IF o = 0 THEN ib ELSE SendTo(ib, o, msg)

\* case 'initiate_call' of handleControlMessage: the handler sends nothing to
\* the socket that asked (the broadcast of initiateCallInternal reaches it)
InitiateReply(ib, o, msg) == ib

\* `await initiateCall(...)` returns the provider call reference
OriginateOk(r) ==
    /\ Alive
    /\ req[r].pc = "originating"
    /\ LET c == req[r].callId IN
       /\ callSid' = [callSid EXCEPT ![c] = TRUE]
       /\ status' = [status EXCEPT ![c] = SetCallSidStatus(@)]
       /\ nCallStarted' = [nCallStarted EXCEPT ![c] = @ + 1]
       /\ inbox' = InitiateReply(BroadcastToControl(inbox, Msg("call_started", c)),
                                 req[r].origin, Msg("call_started", c))
       /\ req' = [req EXCEPT ![r].pc = "done"]
       /\ last' = Rec("callStarted", 200, c, "none", "-", r)
    /\ UNCHANGED <<obs, errorListener, wording, deps, server, stopPc, stopIter, sessions, attached, nextCallId, placed, hangups,
                   controlClients, readyState, conn, nEnded, nCallEnded, nError>>

\* `await initiateCall(...)` throws: catch { this.sessions.delete(callId); throw err }
OriginateFail(r) ==
    /\ Alive
    /\ req[r].pc = "originating"
    /\ LET c == req[r].callId IN
       /\ sessions' = sessions \ {c}
       /\ inbox' = ReplyError(inbox, req[r].origin)
       /\ req' = [req EXCEPT ![r].pc = "failed", ![r].err = "origination"]
       /\ last' = Rec("originateFailed", StatusCode("origination"), c, "none", "-", r)
    /\ UNCHANGED <<obs, errorListener, wording, deps, server, stopPc, stopIter, status, callSid, attached, nextCallId, placed,
                   hangups, controlClients, readyState, conn, nEnded, nCallEnded,
                   nCallStarted, nError>>

\* --------------------------------------------------------- telephony webhooks
\* (mutant) the signature check is skipped
SignatureNeverRejected(sig) == FALSE

\* `signature && !validateWebhookSignature(...)`: the request is turned away
SignatureRejected(sig) == sig = "invalid"

\* (mutant) any call identifier given is taken for a live session
LookupAny(tbl, q) == q # 0

\* callId ? this.sessions.get(callId) : null
Lookup(tbl, q) == q # 0 /\ q \in tbl

\* (mutant) an in-progress status connects the session
InProgressConnects(cur) == IF cur = "ended" THEN cur ELSE "connected"

\* case 'in-progress' of the status webhook: the status is left as it is
\* ("Status is set when media stream connects")
InProgressStatus(cur) == cur

\* POST /twilio/status?callId=q with header signature sig and body CallStatus=cs
TwilioStatus(sig, q, cs) ==
    /\ Accepting
    /\ IF SignatureRejected(sig)
       THEN /\ last' = Rec("twilioStatus", 403, q, sig, cs, 0)
            /\ UNCHANGED <<sessions, status, attached, nEnded, nCallEnded, inbox>>
       ELSE /\ last' = Rec("twilioStatus", 200, q, sig, cs, 0)
            /\ IF ~Lookup(sessions, q)
               THEN UNCHANGED <<sessions, status, attached, nEnded, nCallEnded, inbox>>
               ELSE CASE cs = "ringing" ->
                           /\ status' = [status EXCEPT ![q] = UpdateStatus(@, "ringing")]
                           /\ inbox' = BroadcastToControl(inbox, Msg("call_ringing", q))
                           /\ UNCHANGED <<sessions, attached, nEnded, nCallEnded>>
                      [] cs \in TerminalStatuses ->
                           /\ IF UpdateStatus(status[q], cs) = "ended" /\ status[q] # "ended"
                              THEN ReachEnded(q)
                              ELSE UNCHANGED <<sessions, status, attached, nEnded, nCallEnded>>
                           /\ UNCHANGED inbox
                      [] cs = "in-progress" ->
                           /\ status' = [status EXCEPT ![q] = InProgressStatus(@)]
                           /\ UNCHANGED <<sessions, attached, nEnded, nCallEnded, inbox>>
                      [] OTHER ->
                           UNCHANGED <<sessions, status, attached, nEnded, nCallEnded, inbox>>
    /\ UNCHANGED <<obs, errorListener, wording, deps, server, stopPc, stopIter, callSid, nextCallId, req, placed, hangups,
                   controlClients, readyState, conn, nCallStarted, nError>>

\* generateErrorTwiml(...): markup that apologizes and hangs up
ApologyMarkup == [kind |-> "apology", callId |-> 0]

\* generateMediaStreamsTwiml(config, callId): markup that points the provider
\* at the media-plane endpoint, with the call identifier embedded
StreamMarkup(q) == [kind |-> "stream", callId |-> q]

\* (mutant) media-stream markup is generated whatever the table holds
VoiceMarkupUnchecked(tbl, q) == StreamMarkup(q)

\* the markup the voice webhook answers with for ?callId=q (0: no parameter)
VoiceMarkup(tbl, q) ==
    IF q = 0 THEN ApologyMarkup
    ELSE IF q \notin tbl THEN ApologyMarkup
    ELSE StreamMarkup(q)

\* the record of a voice webhook step, with the markup it answered
RecVoice(code, q, sig, mk) ==
    IF "twilioVoice" \in obs
    THEN [Step("twilioVoice", code, q, sig, mk.kind, 0) EXCEPT !.stream = mk.callId]
    ELSE Quiet

\* POST /twilio/voice?callId=q: call-control markup for the provider
TwilioVoice(sig, q) ==
    /\ Accepting
    /\ last' = IF SignatureRejected(sig) THEN Rec("twilioVoice", 403, q, sig, "-", 0)
               ELSE RecVoice(200, q, sig, VoiceMarkup(sessions, q))
    /\ UNCHANGED <<obs, errorListener, wording, deps, server, stopPc, stopIter, sessions, status, callSid, attached, nextCallId,
                   req, placed, hangups, controlClients, readyState, inbox, conn, nEnded,
                   nCallEnded, nCallStarted, nError>>

\* -------------------------------------------------------------- control plane
ControlConnect(cl) ==
    /\ Accepting
    /\ readyState[cl] = "new"
    /\ \A d \in Clients : d < cl => readyState[d] # "new"
    /\ readyState' = [readyState EXCEPT ![cl] = "open"]
    /\ controlClients' = controlClients \cup {cl}
    /\ last' = Rec("controlConnect", 0, 0, "none", "-", cl)
    /\ UNCHANGED <<obs, errorListener, wording, deps, server, stopPc, stopIter, sessions, status, callSid, attached, nextCallId,
                   req, placed, hangups, inbox, conn, nEnded, nCallEnded, nCallStarted, nError>>

\* ws 'close' event: this.controlClients.delete(ws)
ControlClose(cl) ==
    /\ Alive
    /\ readyState[cl] \in {"open", "closing"}
    /\ readyState' = [readyState EXCEPT ![cl] = "closed"]
    /\ controlClients' = controlClients \ {cl}
    /\ last' = Rec("controlClose", 0, 0, "none", "-", cl)
    /\ UNCHANGED <<obs, errorListener, wording, deps, server, stopPc, stopIter, sessions, status, callSid, attached, nextCallId,
                   req, placed, hangups, inbox, conn, nEnded, nCallEnded, nCallStarted, nError>>

\* {type:'hangup', callId:q}: session.hangup() is called when the table has q;
\* the session is not ended then, so it asks the provider to end the call
ControlHangup(cl, q) ==
    /\ Alive
    /\ cl \in controlClients /\ readyState[cl] = "open"
    /\ IF Lookup(sessions, q)
       THEN /\ hangups[q] < MaxPending
            /\ hangups' = [hangups EXCEPT ![q] = @ + 1]
            /\ last' = Rec("controlHangup", 1, q, "none", "-", cl)
       ELSE /\ UNCHANGED hangups
            /\ last' = Rec("controlHangup", 0, q, "none", "-", cl)
    /\ UNCHANGED <<obs, errorListener, wording, deps, server, stopPc, stopIter, sessions, status, callSid, attached, nextCallId,
                   req, placed, controlClients, readyState, inbox, conn, nEnded,
                   nCallEnded, nCallStarted, nError>>

\* a control-plane hangup() gets the provider's answer: the session tears down
\* and ends, unless it has ended meanwhile
HangupDone(c) ==
    /\ Alive
    /\ hangups[c] > 0
    /\ hangups' = [hangups EXCEPT ![c] = @ - 1]
    /\ IF status[c] # "ended"
       THEN /\ ReachEnded(c)
            /\ last' = Rec("hangupDone", 1, c, "none", "-", 0)
       ELSE /\ UNCHANGED <<sessions, status, attached, nEnded, nCallEnded>>
            /\ last' = Rec("hangupDone", 0, c, "none", "-", 0)
    /\ UNCHANGED <<obs, errorListener, wording, deps, server, stopPc, stopIter, callSid, nextCallId, req, placed,
                   controlClients, readyState, inbox, conn, nCallStarted, nError>>

\* {type:'speak', callId:q}: session.speak, or an error reply to this socket
ControlSpeak(cl, q) ==
    /\ Alive
    /\ cl \in controlClients /\ readyState[cl] = "open"
    /\ IF Lookup(sessions, q)
       THEN /\ UNCHANGED inbox
            /\ last' = Rec("controlSpeak", 1, q, "none", "-", cl)
       ELSE /\ inbox' = SendTo(inbox, cl, Msg("error", q))
            /\ last' = Rec("controlSpeak", 0, q, "none", "-", cl)
    /\ UNCHANGED <<obs, errorListener, wording, deps, server, stopPc, stopIter, sessions, status, callSid, attached, nextCallId,
                   req, placed, hangups, controlClients, readyState, conn, nEnded,
                   nCallEnded, nCallStarted, nError>>

\* ---------------------------------------------------------------- media plane
\* a media-plane socket is accepted; it is anonymous until its start event
MediaConnect(k) ==
    /\ Accepting
    /\ conn[k].st = "new"
    /\ \A j \in Conns : j < k => conn[j].st # "new"
    /\ conn' = [conn EXCEPT ![k].st = "anon"]
    /\ last' = Rec("mediaConnect", 0, 0, "none", "-", k)
    /\ UNCHANGED <<obs, errorListener, wording, deps, server, stopPc, stopIter, sessions, status, callSid, attached, nextCallId,
                   req, placed, hangups, controlClients, readyState, inbox, nEnded,
                   nCallEnded, nCallStarted, nError>>

\* (mutant) initializeMediaStream accepts every call
InitRejectsNever(c) == FALSE

\* CallSession.initializeMediaStream fails if called more than once or after
\* the session has ended
InitRejects(c) == attached[c] \/ status[c] = "ended"

\* (mutant) the sessionInitialized flag is never set
NeverInitialized(st) == FALSE

\* `sessionInitialized` of the connection's closure: set once a start event
\* has resolved the connection to a session
Initialized(st) == st # "anon"

\* (mutant) every identifier announced is taken for a session of the table
HasSessionAlways(tbl, q) == TRUE

\* `this.sessions.get(callId)` of the media handshake yields a session
HasSession(tbl, q) == q \in tbl

\* the 'start' event of connection k, customParameters.callId = q (0: none)
MediaStart(k, q) ==
    /\ Alive
    /\ conn[k].st \in {"anon", "init", "ok", "failed"}
    /\ IF Initialized(conn[k].st)
       THEN /\ last' = Rec("mediaStart", 0, q, "none", "ignored", k)
            /\ UNCHANGED <<conn, attached>>
       ELSE IF q = 0
       THEN /\ conn' = [conn EXCEPT ![k].st = "closed", ![k].code = CloseBadHandshake]
            /\ last' = Rec("mediaStart", CloseBadHandshake, q, "none", "missing", k)
            /\ UNCHANGED attached
       ELSE IF ~HasSession(sessions, q)
       THEN /\ conn' = [conn EXCEPT ![k].st = "closed", ![k].code = CloseUnknownCall]
            /\ last' = Rec("mediaStart", CloseUnknownCall, q, "none", "unknown", k)
            /\ UNCHANGED attached
       ELSE /\ conn' = [conn EXCEPT ![k].st = "init", ![k].callId = q,
                                    ![k].rejects = InitRejects(q),
                                    ![k].inits = @ + 1]
            /\ attached' = [attached EXCEPT ![q] = TRUE]
            /\ last' = Rec("mediaStart", 0, q, "none", "init", k)
    /\ UNCHANGED <<obs, errorListener, wording, deps, server, stopPc, stopIter, sessions, status, callSid, nextCallId, req,
                   placed, hangups, controlClients, readyState, inbox, nEnded, nCallEnded,
                   nCallStarted, nError>>

\* initializeMediaStream resolves: the bridge is attached, the call connected
MediaInitOk(k) ==
    /\ Alive
    /\ conn[k].st = "init"
    /\ ~conn[k].rejects
    /\ LET c == conn[k].callId IN
       /\ conn' = [conn EXCEPT ![k].st = "ok"]
       /\ status' = [status EXCEPT ![c] = IF @ = "ended" THEN @ ELSE "connected"]
       /\ last' = Rec("mediaInitOk", 0, c, "none", "-", k)
    /\ UNCHANGED <<obs, errorListener, wording, deps, server, stopPc, stopIter, sessions, callSid, attached, nextCallId, req,
                   placed, hangups, controlClients, readyState, inbox, nEnded, nCallEnded,
                   nCallStarted, nError>>

\* .catch of initializeMediaStream: this.sessions.delete(callId)
SessionsAfterInitFailure(tbl, c) == tbl \ {c}

\* initializeMediaStream rejects: .catch deletes the session from the table,
\* emits 'error' on the server and closes the socket with 1011.  An
\* EventEmitter with no listener on 'error' throws from emit('error', err):
\* the close is then not reached, and the rejection of the promise chain is
\* left unhandled, which ends the process or not as the runtime is set up.
MediaInitFail(k) ==
    /\ Alive
    /\ conn[k].st = "init"
    /\ LET c == conn[k].callId IN
       /\ sessions' = SessionsAfterInitFailure(sessions, c)
       /\ nError' = nError + 1
       /\ attached' = IF conn[k].rejects THEN attached ELSE [attached EXCEPT ![c] = FALSE]
       /\ IF errorListener
          THEN /\ conn' = [conn EXCEPT ![k].st = "closed", ![k].code = CloseInitFailed]
               /\ server' = server
               /\ last' = Rec("mediaInitFail", CloseInitFailed, c, "none",
                               IF conn[k].rejects THEN "rejected" ELSE "bridge", k)
          ELSE /\ conn' = [conn EXCEPT ![k].st = "failed"]
               /\ server' \in {server, "crashed"}
               /\ last' = Rec("mediaInitFail", 0, c, "none",
                               IF conn[k].rejects THEN "rejected" ELSE "bridge", k)
    /\ UNCHANGED <<obs, errorListener, wording, deps, stopPc, stopIter, status, callSid, nextCallId, req, placed,
                   hangups, controlClients, readyState, inbox, nEnded, nCallEnded,
                   nCallStarted>>

\* an unrecoverable error of the attached bridge: the session reports it on
\* its message stream (forwarded by broadcastToControl) and ends
BridgeError(c) ==
    /\ Alive
    /\ status[c] = "connected"
    /\ attached[c]
    /\ inbox' = BroadcastToControl(inbox, Msg("error", c))
    /\ ReachEnded(c)
    /\ last' = Rec("bridgeError", 0, c, "none", "-", 0)
    /\ UNCHANGED <<obs, errorListener, wording, deps, server, stopPc, stopIter, callSid, nextCallId, req, placed, hangups,
                   controlClients, readyState, conn, nCallStarted, nError>>

\* -------------------------------------------------------------- specification
Next ==
    \/ Start
    \/ StopBegin
    \/ StopHangupDone
    \/ StopClosed
    \/ \E r \in Reqs, o \in {0} \cup Clients : InitiateCall(r, o)
    \/ \E r \in Reqs, b \in Bodies : CallRequest(r, b)
    \/ \E q \in {0} \cup CallIds : CallStatusCheck(q)
    \/ \E r \in Reqs, k \in CheckIdx, ok \in BOOLEAN : PreflightResolves(r, k, ok)
    \/ \E r \in Reqs : AfterPreflight(r)
    \/ \E r \in Reqs : OriginateOk(r)
    \/ \E r \in Reqs : OriginateFail(r)
    \/ \E sig \in Signatures, q \in {0} \cup CallIds, cs \in CallStatuses : TwilioStatus(sig, q, cs)
    \/ \E sig \in Signatures, q \in {0} \cup CallIds : TwilioVoice(sig, q)
    \/ \E cl \in Clients : ControlConnect(cl)
    \/ \E cl \in Clients : ControlClose(cl)
    \/ \E cl \in Clients, q \in {0} \cup CallIds : ControlHangup(cl, q)
    \/ \E c \in CallIds : HangupDone(c)
    \/ \E cl \in Clients, q \in {0} \cup CallIds : ControlSpeak(cl, q)
    \/ \E k \in Conns : MediaConnect(k)
    \/ \E k \in Conns, q \in {0} \cup CallIds : MediaStart(k, q)
    \/ \E k \in Conns : MediaInitOk(k)
    \/ \E k \in Conns : MediaInitFail(k)
    \/ \E c \in CallIds : BridgeError(c)

Init ==
    /\ Init0
    /\ obs = {}
    /\ errorListener \in BOOLEAN
    /\ wording \in [Failures -> BOOLEAN]
    /\ deps = NoRun

Spec == Init /\ [][Next]_vars

TypeOK ==
    /\ server \in {"null", "listening", "closing", "crashed"}
    /\ stopPc \in {"idle", "hangup", "closing"}
    /\ sessions \subseteq CallIds
    /\ \A c \in CallIds : status[c] \in {"none", "created", "placing", "ringing", "connected", "ended"}
    /\ nextCallId \in 1..(MaxReq + 1)
    /\ \A c \in Clients : Len(inbox[c]) <= MaxInbox

\* ===================================================== call initiation claims
\* Requests from POST /call and from control clients, each check of each
\* request resolving on its own, ok or not.
NextInitiate ==
    \/ Start
    \/ \E cl \in 1..InClients : ControlConnect(cl)
    \/ \E r \in 1..InReqs, o \in 0..InClients : InitiateCall(r, o)
    \/ \E r \in 1..InReqs, k \in CheckIdx, ok \in BOOLEAN : PreflightResolves(r, k, ok)
    \/ \E r \in 1..InReqs : AfterPreflight(r)
    \/ \E r \in 1..InReqs : OriginateOk(r)
    \/ \E r \in 1..InReqs : OriginateFail(r)

InitInitiate ==
    /\ Init0
    /\ obs = {"preflight"}
    /\ errorListener = TRUE
    /\ wording = PlainWording
    /\ deps = NoRun

SpecInitiate == InitInitiate /\ [][NextInitiate]_vars

\* C1: the telephony origination request of a call is issued only after all
\* three preflight checks of its request have resolved, and all three ok; a
\* request does not go past the preflight while a check is unresolved.
C1_OriginateOnlyAfterPreflight ==
    \A r \in Reqs :
        /\ req[r].pc \in {"originating", "done", "failed"} =>
               \A k \in CheckIdx : req[r].pre[k] \in {"ok", "fail"}
        /\ (req[r].callId # 0 /\ req[r].callId \in placed) =>
               \A k \in CheckIdx : req[r].pre[k] = "ok"

\* a call has been placed for a request while another request is still waiting
\* with only some of its checks resolved
C1_Witness ==
    \E r, q \in Reqs :
        /\ req[r].pc = "originating" /\ req[r].callId \in placed
        /\ \A k \in CheckIdx : req[r].pre[k] = "ok"
        /\ req[q].pc = "preflight"
        /\ req[q].pre[1] = "ok" /\ req[q].pre[3] = "pending"

\* C2: a request one of whose preflight checks is not ok fails, all or
\* nothing: no call identifier is allocated, no session constructed, the
\* session table (the activeCalls of /status) is as before, no call is placed.
C2_PreflightFailureAllOrNothing ==
    [][\A r \in Reqs :
          (/\ req[r].pc = "preflight"
           /\ req'[r].pc # "preflight"
           /\ \E k \in CheckIdx : req[r].pre[k] = "fail")
          => /\ req'[r].pc = "failed"
             /\ req'[r].callId = 0
             /\ nextCallId' = nextCallId
             /\ sessions' = sessions
             /\ Cardinality(sessions') = Cardinality(sessions)
             /\ status' = status
             /\ placed' = placed]_vars

\* a request failed on its third check alone while the table held a session
C2_Witness ==
    \E r \in Reqs :
        /\ req[r].pc = "failed" /\ req[r].err = "elevenlabs"
        /\ req[r].pre[1] = "ok" /\ req[r].pre[2] = "ok" /\ req[r].pre[3] = "fail"
        /\ req[r].callId = 0
        /\ sessions # {}
        /\ placed = sessions

\* ======================================================== call lifecycle claims
\* Calls placed over POST /call with healthy providers (the checks of a
\* request answer ok, in array order), then every route a
\* session can take: status webhooks, control hangup and speak, the media
\* handshake, bridge errors, and stop().
NextLifecycle ==
    \/ Start
    \/ StopBegin
    \/ StopHangupDone
    \/ StopClosed
    \/ \E r \in 1..LcCalls : InitiateCall(r, 0)
    \/ \E r \in 1..LcCalls : PreflightResolves(r, FirstPending(req[r].pre), TRUE)
    \/ \E r \in 1..LcCalls : AfterPreflight(r)
    \/ \E r \in 1..LcCalls : OriginateOk(r)
    \/ \E r \in 1..LcCalls : OriginateFail(r)
    \/ \E q \in 1..LcCalls, cs \in CallStatuses : TwilioStatus("valid", q, cs)
    \/ \E cl \in 1..LcClients : ControlConnect(cl)
    \/ \E cl \in 1..LcClients : ControlClose(cl)
    \/ \E cl \in 1..LcClients, q \in 1..LcCalls : ControlHangup(cl, q)
    \/ \E c \in 1..LcCalls : HangupDone(c)
    \/ \E cl \in 1..LcClients, q \in 1..LcCalls : ControlSpeak(cl, q)
    \/ \E k \in 1..LcConns : MediaConnect(k)
    \/ \E k \in 1..LcConns, q \in 1..LcCalls : MediaStart(k, q)
    \/ \E k \in 1..LcConns : MediaInitOk(k)
    \/ \E k \in 1..LcConns : MediaInitFail(k)
    \/ \E c \in 1..LcCalls : BridgeError(c)

InitLifecycle ==
    /\ Init0
    /\ obs = {"hangupDone", "stopHangupDone", "bridgeError", "callStarted"}
    /\ errorListener = TRUE
    /\ wording = PlainWording
    /\ deps = NoRun

SpecLifecycle == InitLifecycle /\ [][NextLifecycle]_vars

\* C3: a call identifier is a key of the session table if and only if a
\* session was created for it and that session has not reached ended.
C3_TableIffNotEnded ==
    \A c \in CallIds : c \in sessions <=> status[c] \notin {"none", "ended"}

\* C5: hangup() is idempotent: however many hangups are requested for a
\* session, it emits exactly one ended event and the server emits call_ended
\* for it exactly once.
C5_HangupIdempotent ==
    \A c \in CallIds :
        /\ nEnded[c] <= 1
        /\ nCallEnded[c] <= 1
        /\ (last.op \in {"hangupDone", "stopHangupDone"} /\ last.callId = c) =>
               (nEnded[c] = 1 /\ nCallEnded[c] = 1)

\* a control hangup completes on a session that another hangup, still
\* pending when this one was requested, has already ended
C5_Witness ==
    \E c \in CallIds :
        /\ last.op = "hangupDone" /\ last.callId = c /\ last.code = 0
        /\ hangups[c] = 0
        /\ status[c] = "ended"
        /\ nEnded[c] = 1 /\ nCallEnded[c] = 1

\* C6: the status of a session never leaves ended, and an ended session is
\* never put back into the session table.
C6_EndedIsTerminal ==
    [][\A c \in CallIds :
          status[c] = "ended" => (status'[c] = "ended" /\ c \notin sessions')]_vars

\* the provider reference of the first call arrives (setCallSid) when the
\* call has already ended, beside a second call that is connected
C6_Witness ==
    /\ last.op = "callStarted" /\ last.callId = 1
    /\ status[1] = "ended" /\ callSid[1]
    /\ 1 \notin sessions
    /\ status[2] = "connected"
    /\ 2 \in sessions

\* C7: whenever a session reaches ended (hangup, terminal status webhook or
\* bridge error), it is removed from the session table and exactly one
\* completion event has been emitted for it.
C7_EndedRemovedAndAnnounced ==
    \A c \in CallIds :
        status[c] = "ended" => (c \notin sessions /\ nEnded[c] = 1 /\ nCallEnded[c] = 1)

\* a session has just ended on a bridge error
C7_Witness ==
    \E c \in CallIds :
        /\ last.op = "bridgeError" /\ last.callId = c
        /\ status[c] = "ended" /\ c \notin sessions
        /\ nCallEnded[c] = 1

\* ============================================================= webhook claims
\* Calls placed over POST /call with healthy providers, a control client
\* listening, and telephony webhooks of every kind: with
\* a valid, an invalid or no signature, with or without a call identifier.
NextWebhook ==
    \/ Start
    \/ \E cl \in 1..WhClients : ControlConnect(cl)
    \/ \E r \in 1..WhCalls : InitiateCall(r, 0)
    \/ \E r \in 1..WhCalls : PreflightResolves(r, FirstPending(req[r].pre), TRUE)
    \/ \E r \in 1..WhCalls : AfterPreflight(r)
    \/ \E r \in 1..WhCalls : OriginateOk(r)
    \/ \E r \in 1..WhCalls : OriginateFail(r)
    \/ \E sig \in Signatures, q \in 0..WhCalls, cs \in CallStatuses : TwilioStatus(sig, q, cs)
    \/ \E sig \in Signatures, q \in 0..WhCalls : TwilioVoice(sig, q)

InitWebhook ==
    /\ Init0
    /\ obs = {"twilioStatus", "twilioVoice", "inbox"}
    /\ errorListener = TRUE
    /\ wording = PlainWording
    /\ deps = NoRun

SpecWebhook == InitWebhook /\ [][NextWebhook]_vars

\* the messages a control client has received about call identifier c
About(cl, c) == {i \in 1..Len(inbox[cl]) : inbox[cl][i].callId = c}

\* C4: when the origination request fails, the session is removed from the
\* table and no event at all has been broadcast for that call identifier.
C4_NoEventForFailedOrigination ==
    \A r \in Reqs :
        (req[r].pc = "failed" /\ req[r].err = "origination") =>
            /\ req[r].callId \notin sessions
            /\ \A cl \in Clients : About(cl, req[r].callId) = {}

\* C8: a telephony webhook whose signature does not validate is answered 403
\* and changes nothing: no session status, not the table, and no broadcast.
C8_BadSignatureChangesNothing ==
    [][(last'.op \in {"twilioStatus", "twilioVoice"} /\ last'.sig = "invalid")
          => /\ last'.code = 403
             /\ UNCHANGED <<sessions, status, attached, callSid, inbox, nEnded,
                            nCallEnded>>]_vars

\* a terminal status with a bad signature was sent for a live call while a
\* control client was listening: answered 403, the call is still live
C8_Witness ==
    /\ last.op = "twilioStatus" /\ last.sig = "invalid" /\ last.code = 403
    /\ last.cs = "completed"
    /\ last.callId \in sessions
    /\ status[last.callId] = "ringing"
    /\ \E cl \in controlClients : readyState[cl] = "open"

\* C9: every session status change and every call_ringing broadcast caused by
\* a status webhook comes from a request whose signature was validated.
C9_MutationOnlyAfterValidation ==
    [][(last'.op = "twilioStatus" /\ (status' # status \/ inbox' # inbox))
          => last'.sig = "valid"]_vars

\* C10 as stated: a status webhook for a call identifier that is absent from
\* the table, or with none, is answered 200 and changes and broadcasts nothing.
C10_UnknownCallAccepted ==
    [][(last'.op = "twilioStatus" /\ (last'.callId = 0 \/ last'.callId \notin sessions))
          => /\ last'.code = 200
             /\ UNCHANGED <<sessions, status, attached, inbox, nEnded, nCallEnded>>]_vars

\* C10 (amended): such a status webhook, unless its signature is rejected, is
\* answered 200 and changes and broadcasts nothing; a rejected one gets 403.
C10_UnknownCallAcceptedIfNotRejected ==
    [][(last'.op = "twilioStatus" /\ (last'.callId = 0 \/ last'.callId \notin sessions))
          => /\ last'.code = IF last'.sig = "invalid" THEN 403 ELSE 200
             /\ UNCHANGED <<sessions, status, attached, inbox, nEnded, nCallEnded>>]_vars

\* a completed status arrives, validly signed, for a call that was taken out
\* of the table when its origination failed: 200, the session is untouched
C10_Witness ==
    /\ last.op = "twilioStatus" /\ last.sig = "valid" /\ last.code = 200
    /\ last.cs = "completed" /\ last.callId = 1
    /\ 1 \notin sessions
    /\ status[1] = "created"
    /\ nEnded[1] = 0
    /\ \E cl \in controlClients : readyState[cl] = "open"

\* C28: a voice webhook whose signature is accepted is answered 200 with
\* markup: the apology when the call identifier is missing or not in the
\* table, else media-stream markup carrying that same identifier; and the
\* request changes no session.
C28_VoiceAlwaysAnswersMarkup ==
    [][(last'.op = "twilioVoice" /\ last'.sig # "invalid")
          => /\ last'.code = 200
             /\ IF last'.callId = 0 \/ last'.callId \notin sessions
                THEN last'.cs = "apology"
                ELSE last'.cs = "stream" /\ last'.stream = last'.callId
             /\ UNCHANGED <<sessions, status, attached, callSid, inbox, nEnded,
                            nCallEnded>>]_vars

\* the provider asks for the markup of a call whose origination had failed
\* and which the table no longer holds: 200 with the apology
C28_Witness ==
    /\ last.op = "twilioVoice" /\ last.sig = "valid" /\ last.code = 200
    /\ last.callId = 1 /\ last.cs = "apology"
    /\ 1 \notin sessions
    /\ \E r \in Reqs : req[r].callId = 1 /\ req[r].pc = "failed"

\* ========================================================= media plane claims
\* A call placed over POST /call with healthy providers, a control client
\* listening, and media-plane connections announcing that call, no call, or a
\* call the table does not hold; bridge initialization succeeds or fails, in
\* an application that listens for the server's 'error' event or does not.
NextMedia ==
    \/ Start
    \/ \E cl \in 1..MdClients : ControlConnect(cl)
    \/ \E r \in 1..MdCalls : InitiateCall(r, 0)
    \/ \E r \in 1..MdCalls : PreflightResolves(r, FirstPending(req[r].pre), TRUE)
    \/ \E r \in 1..MdCalls : AfterPreflight(r)
    \/ \E r \in 1..MdCalls : OriginateOk(r)
    \/ \E k \in 1..MdConns : MediaConnect(k)
    \/ \E k \in 1..MdConns, q \in 0..MdCalls : MediaStart(k, q)
    \/ \E k \in 1..MdConns : MediaInitOk(k)
    \/ \E k \in 1..MdConns : MediaInitFail(k)
    \/ \E c \in 1..MdCalls : BridgeError(c)

InitMedia ==
    /\ Init0
    /\ obs = {"mediaStart", "mediaInitFail", "inbox"}
    /\ errorListener \in BOOLEAN
    /\ wording = PlainWording
    /\ deps = NoRun

SpecMedia == InitMedia /\ [][NextMedia]_vars

\* C11: a connection whose start message carries no call identifier is closed
\* with a status code different from the one used for a connection whose
\* call identifier matches no live session.
C11_DistinctCloseCodes ==
    [][(/\ last.op = "mediaStart" /\ last.cs = "missing"
        /\ last'.op = "mediaStart" /\ last'.cs = "unknown")
          => last'.code # last.code]_vars

\* C12: a media handshake whose call identifier is missing or not in the
\* table touches no session: no initializeMediaStream call, no status change,
\* the table unchanged; only the offending connection is closed.
C12_BadHandshakeTouchesNoSession ==
    [][\A k \in Conns, q \in {0} \cup CallIds :
          (/\ last'.op = "mediaStart" /\ last'.who = k /\ last'.callId = q
           /\ conn[k].st = "anon"
           /\ q \in sessions => q = 0)
          => /\ UNCHANGED <<sessions, status, attached, callSid, nEnded, nCallEnded, inbox>>
             /\ conn'[k].st = "closed"
             /\ conn'[k].inits = 0
             /\ \A j \in Conns \ {k} : conn'[j] = conn[j]]_vars

\* a connection announcing no call identifier was closed while the call is
\* connected over another connection
C12_Witness ==
    /\ last.op = "mediaStart" /\ last.cs = "missing"
    /\ conn[last.who].st = "closed"
    /\ \E j \in Conns : conn[j].st = "ok" /\ conn[j].callId = 1
    /\ status[1] = "connected"
    /\ 1 \in sessions

\* C13: initializeMediaStream is invoked at most once per media connection;
\* once a start message has resolved the connection to a session, a further
\* start message is ignored: no initialization, no close, no table change.
C13_StartHandledOnce ==
    [][\A k \in Conns :
          /\ conn'[k].inits <= 1
          /\ (last'.op = "mediaStart" /\ last'.who = k /\ conn[k].st # "anon")
               => UNCHANGED <<conn, sessions, status, attached>>]_vars

\* a second start message arrived on the connection that carries the call
C13_Witness ==
    /\ last.op = "mediaStart" /\ last.cs = "ignored" /\ last.callId = 1
    /\ conn[last.who].st = "ok"
    /\ conn[last.who].inits = 1
    /\ status[1] = "connected"

\* C14: when bridge initialization fails, the session is removed from the
\* table, an error event is emitted on the server, and the media connection
\* is closed with 1011.
C14_InitFailureCleansUp ==
    [][\A k \in Conns :
          (conn[k].st = "init" /\ last'.op = "mediaInitFail" /\ last'.who = k)
          => /\ conn[k].callId \notin sessions'
             /\ nError' = nError + 1
             /\ conn'[k].st = "closed"
             /\ conn'[k].code = CloseInitFailed]_vars

\* C15: after a bridge initialization failure the session has ended, with its
\* completion event emitted, and every open control client has received an
\* error message for that call.
C15_InitFailureEndsAndBroadcasts ==
    (last.op = "mediaInitFail") =>
        /\ status[last.callId] = "ended"
        /\ nEnded[last.callId] = 1
        /\ \A cl \in controlClients :
               readyState[cl] = "open" =>
                   \E i \in 1..Len(inbox[cl]) : inbox[cl][i] = Msg("error", last.callId)

\* C16: an error inside one call's lifecycle never terminates the process,
\* whether or not the server's 'error' event has a listener.
C16_CallErrorNeverFatal == server # "crashed"

\* C32: initializeMediaStream fails when it is called on a session that a
\* media-plane connection has claimed already or that has ended; a call that
\* fails never attaches, a session has one attached connection at most, and
\* the connection attached first stays as it is.
C32_SecondAttachRejected ==
    [][\A k \in Conns :
          /\ (conn[k].st = "anon" /\ conn'[k].st = "init")
                => (conn'[k].rejects <=> (\/ attached[conn'[k].callId]
                                          \/ status[conn'[k].callId] = "ended"))
          /\ (conn[k].st # "ok" /\ conn'[k].st = "ok")
                => /\ ~conn[k].rejects
                   /\ \A j \in Conns \ {k} :
                         ~(conn[j].st = "ok" /\ conn[j].callId = conn[k].callId)
          /\ conn[k].st = "ok" => conn'[k] = conn[k]]_vars

\* the first connection carries the call; a second one announced the same
\* call, and its initializeMediaStream is about to reject
C32_Witness ==
    /\ conn[1].st = "ok" /\ conn[1].callId = 1
    /\ conn[2].st = "init" /\ conn[2].callId = 1 /\ conn[2].rejects
    /\ status[1] = "connected"

\* C39: a session whose media bridge is attached is not disturbed by another
\* media-plane connection announcing the same call: when that connection's
\* initialization is refused, the session stays in the table with its status.
C39_AttachedSessionUndisturbed ==
    [][\A k \in Conns :
          (/\ last'.op = "mediaInitFail" /\ last'.who = k
           /\ conn[k].rejects
           /\ \E j \in Conns \ {k} : conn[j].st = "ok" /\ conn[j].callId = conn[k].callId
           /\ conn[k].callId \in sessions)
             => /\ conn[k].callId \in sessions'
                /\ status'[conn[k].callId] = status[conn[k].callId]]_vars

\* the media plane with the continuations of the server itself taken whenever
\* they can be; providers, sessions and clients are under no obligation
SpecMediaLive ==
    /\ InitMedia
    /\ [][NextMedia]_vars
    /\ WF_vars(\E r \in 1..MdCalls : AfterPreflight(r))

\* C40: a call for which call_started was emitted and whose session has left
\* the table gets its call_ended event, exactly one, whatever took it out of
\* the table.
C40_CallEndedFollows ==
    \A c \in CallIds :
        (nCallStarted[c] >= 1 /\ c \notin sessions) ~> (nCallEnded[c] = 1)

\* ======================================================= control plane claims
\* Two control clients, a call started over POST /call, and speak and hangup
\* messages addressed at the call or at an identifier the table does not hold.
NextControl ==
    \/ Start
    \/ \E cl \in 1..CtClients : ControlConnect(cl)
    \/ \E r \in 1..CtCalls : InitiateCall(r, 0)
    \/ \E r \in 1..CtCalls : PreflightResolves(r, FirstPending(req[r].pre), TRUE)
    \/ \E r \in 1..CtCalls : AfterPreflight(r)
    \/ \E r \in 1..CtCalls : OriginateOk(r)
    \/ \E cl \in 1..CtClients, q \in 0..CtCalls : ControlSpeak(cl, q)
    \/ \E cl \in 1..CtClients, q \in 0..CtCalls : ControlHangup(cl, q)
    \/ \E c \in 1..CtCalls : HangupDone(c)

InitControl ==
    /\ Init0
    /\ obs = {"controlSpeak", "controlHangup", "inbox"}
    /\ errorListener = TRUE
    /\ wording = PlainWording
    /\ deps = NoRun

SpecControl == InitControl /\ [][NextControl]_vars

\* Two control clients that connect and leave, a call started by either of
\* them or over POST /call, ringing status webhooks, the media handshake and
\* a bridge error.
NextBroadcast ==
    \/ Start
    \/ \E cl \in 1..BcClients : ControlConnect(cl)
    \/ \E cl \in 1..BcClients : ControlClose(cl)
    \/ \E r \in 1..BcCalls, o \in 0..BcClients : InitiateCall(r, o)
    \/ \E r \in 1..BcCalls : PreflightResolves(r, FirstPending(req[r].pre), TRUE)
    \/ \E r \in 1..BcCalls : AfterPreflight(r)
    \/ \E r \in 1..BcCalls : OriginateOk(r)
    \/ \E q \in 1..BcCalls : TwilioStatus("valid", q, "ringing")
    \/ \E k \in 1..BcConns : MediaConnect(k)
    \/ \E k \in 1..BcConns, q \in 1..BcCalls : MediaStart(k, q)
    \/ \E k \in 1..BcConns : MediaInitOk(k)
    \/ \E c \in 1..BcCalls : BridgeError(c)

InitBroadcast ==
    /\ Init0
    /\ obs = {"callStarted", "twilioStatus", "bridgeError", "inbox"}
    /\ errorListener = TRUE
    /\ wording = PlainWording
    /\ deps = NoRun

SpecBroadcast == InitBroadcast /\ [][NextBroadcast]_vars

\* the client's socket is in the set and OPEN, and its record has room
Listening(cl) ==
    cl \in controlClients /\ readyState[cl] = "open" /\ Len(inbox[cl]) < MaxInbox

\* how many times client cl has received msg
Copies(cl, msg) == Cardinality({i \in 1..Len(inbox[cl]) : inbox[cl][i] = msg})

\* C17: a speak or hangup message addressed at a call identifier that is not
\* in the table produces an error reply to the client that sent it, and to no
\* other client.
C17_UnknownCallErrorToSender ==
    [][\A cl \in Clients :
          (/\ last'.op \in {"controlSpeak", "controlHangup"}
           /\ last'.who = cl
           /\ last'.callId \notin sessions
           /\ Listening(cl))
          => /\ inbox'[cl] = Append(inbox[cl], Msg("error", last'.callId))
             /\ \A d \in Clients \ {cl} : inbox'[d] = inbox[d]]_vars

\* C18: when a call starts, each control client connected and open receives
\* its call_started message, exactly once; and what a client has received is
\* only ever extended at the end, in the order of emission.
C18_CallStartedOncePerClientInOrder ==
    [][\A cl \in Clients :
          /\ Len(inbox'[cl]) >= Len(inbox[cl])
          /\ SubSeq(inbox'[cl], 1, Len(inbox[cl])) = inbox[cl]
          /\ \A c \in CallIds :
                 Cardinality({i \in 1..Len(inbox'[cl]) :
                                 inbox'[cl][i] = Msg("call_started", c)}) <= 1
          /\ (last'.op = "callStarted" /\ Listening(cl))
               => inbox'[cl] = Append(inbox[cl], Msg("call_started", last'.callId))]_vars

\* a call asked for by the first client has started: both clients hold its
\* call_started message, once each
C18_Witness ==
    /\ last.op = "callStarted" /\ last.callId = 1
    /\ req[1].origin = 1
    /\ \A cl \in {1, 2} :
           /\ cl \in controlClients /\ readyState[cl] = "open"
           /\ Copies(cl, Msg("call_started", 1)) = 1

\* C19: call_started, call_ringing and every message a session emits are
\* delivered to every control client connected and open at that moment,
\* whoever initiated the call.
C19_BroadcastReachesEveryClient ==
    [][LET m == CASE last'.op = "callStarted" -> Msg("call_started", last'.callId)
                  [] last'.op = "bridgeError" -> Msg("error", last'.callId)
                  [] last'.op = "twilioStatus" /\ last'.cs = "ringing"
                         /\ last'.callId \in sessions -> Msg("call_ringing", last'.callId)
                  [] OTHER -> Msg("-", 0)
       IN m.type # "-" =>
              \A cl \in Clients : Listening(cl) => inbox'[cl] = Append(inbox[cl], m)]_vars

\* the phone of a call asked for by the first client rings: the second
\* client, which connected later and asked for nothing, is told as well
C19_Witness ==
    /\ last.op = "twilioStatus" /\ last.cs = "ringing" /\ last.callId = 1
    /\ req[1].origin = 1
    /\ 2 \in controlClients /\ readyState[2] = "open"
    /\ Copies(2, Msg("call_ringing", 1)) = 1
    /\ Copies(2, Msg("call_started", 1)) = 0
    /\ Copies(1, Msg("call_started", 1)) = 1

\* ================================================================ stop() claims
\* Calls placed over POST /call and a control client, with stop() called at
\* any moment: before, while or after the calls are set up.
NextStop ==
    \/ Start
    \/ StopBegin
    \/ StopHangupDone
    \/ StopClosed
    \/ \E cl \in 1..StClients : ControlConnect(cl)
    \/ \E r \in 1..StCalls : InitiateCall(r, 0)
    \/ \E r \in 1..StCalls : PreflightResolves(r, FirstPending(req[r].pre), TRUE)
    \/ \E r \in 1..StCalls : AfterPreflight(r)
    \/ \E r \in 1..StCalls : OriginateOk(r)

InitStop ==
    /\ Init0
    /\ obs = {"stop", "stopHangupDone", "stopped"}
    /\ errorListener = TRUE
    /\ wording = PlainWording
    /\ deps = NoRun

SpecStop == InitStop /\ [][NextStop]_vars

\* C20: when stop() has completed, the session table is empty, the set of
\* control clients is empty, the server is not running, and every session
\* that was in the table has been hung up (has ended).
C20_StopDrains ==
    (last.op = "stopped") =>
        /\ sessions = {}
        /\ controlClients = {}
        /\ server = "null"
        /\ \A c \in CallIds : status[c] \in {"none", "ended"}

\* C38: once stop() has completed, the table stays empty and no provider call
\* is placed, whatever requests were waiting for their checks or for the
\* origination when stop() ran.
C38_NothingAfterStop ==
    [][(server = "null" /\ stopPc = "idle")
          => (sessions' = {} /\ placed' = placed)]_vars

\* stop() with the steps of the server itself taken whenever they can be: the
\* continuation after the preflight and the callback of server.close().  The
\* providers are under no such obligation: a check, an origination request or
\* a hangup may stay unanswered for ever.
SpecStopLive ==
    /\ InitStop
    /\ [][NextStop]_vars
    /\ WF_vars(StopClosed)
    /\ WF_vars(\E r \in 1..StCalls : AfterPreflight(r))

\* C21: stop() terminates even when a provider never answers: its wait for
\* the hangup of a session always comes to an end, and stop() goes on to the
\* next session or to closing the control connections and the listeners.
C21_StopTerminates ==
    \A c \in CallIds :
        (stopPc = "hangup" /\ stopIter = c) ~> ~(stopPc = "hangup" /\ stopIter = c)

\* C22: stop() on a server that is stopped already or was never started
\* completes at once, changes nothing (no session, no control client, not the
\* listener) and emits no stopped event.
C22_StopIdempotent ==
    [][(last'.op \in {"stop", "stopHangupDone", "stopped"} /\ server = "null")
          => /\ last'.op = "stop"
             /\ stopPc' = "idle"
             /\ UNCHANGED <<server, sessions, status, attached, controlClients,
                            readyState, nEnded, nCallEnded>>]_vars

\* ================================================================ POST /call claims
\* POST /call with bodies of every shape; a request that passes the validation
\* is carried through with healthy providers.
NextHttp ==
    \/ Start
    \/ \E r \in 1..HtReqs, b \in Bodies : CallRequest(r, b)
    \/ \E r \in 1..HtReqs : PreflightResolves(r, FirstPending(req[r].pre), TRUE)
    \/ \E r \in 1..HtReqs : AfterPreflight(r)
    \/ \E r \in 1..HtReqs : OriginateOk(r)

InitHttp ==
    /\ Init0
    /\ obs = {"callRequest"}
    /\ errorListener = TRUE
    /\ wording = PlainWording
    /\ deps = NoRun

SpecHttp == InitHttp /\ [][NextHttp]_vars

\* POST /call requests that pass the validation; their checks resolve on their
\* own, ok or not, and the origination succeeds or fails; the provider texts
\* may or may not say "preflight".
NextFailure ==
    \/ Start
    \/ \E r \in 1..FlReqs : InitiateCall(r, 0)
    \/ \E r \in 1..FlReqs, k \in CheckIdx, ok \in BOOLEAN : PreflightResolves(r, k, ok)
    \/ \E r \in 1..FlReqs : AfterPreflight(r)
    \/ \E r \in 1..FlReqs : OriginateOk(r)
    \/ \E r \in 1..FlReqs : OriginateFail(r)

InitFailure ==
    /\ Init0
    /\ obs = {"preflightFailed", "originateFailed"}
    /\ errorListener = TRUE
    /\ wording \in [Failures -> BOOLEAN]
    /\ deps = NoRun

SpecFailure == InitFailure /\ [][NextFailure]_vars

\* a body the validation has to turn away: phoneNumber or goal missing or no
\* string, or a field longer than its limit
FailsValidation(b) ==
    \/ b.phoneNumber.t # "string"
    \/ b.goal.t # "string"
    \/ b.phoneNumber.len > MAX_PHONE_LENGTH
    \/ b.goal.len > MAX_GOAL_LENGTH
    \/ b.context.len > MAX_CONTEXT_LENGTH

\* C26: a POST /call whose body fails validation is answered with a 400-class
\* status, runs no preflight check, creates no session and places no call; a
\* goal of exactly 1000 characters is not rejected for its length.
C26_InvalidBodyRejected400 ==
    [][last'.op = "callRequest" =>
          /\ FailsValidation(last'.body) =>
                 /\ last'.code \in 400..499
                 /\ UNCHANGED <<req, sessions, status, placed, nextCallId>>
          /\ (/\ last'.body.json = "object"
              /\ last'.body.goal = Str(MAX_GOAL_LENGTH)
              /\ last'.body.phoneNumber = Str(MAX_PHONE_LENGTH)
              /\ last'.body.context = Absent) => last'.code = 0]_vars

NextSignal ==
    \/ Start
    \/ \E cl \in 1..SgClients : ControlConnect(cl)
    \/ \E r \in 1..SgCalls : InitiateCall(r, 0)
    \/ \E r \in 1..SgCalls : PreflightResolves(r, FirstPending(req[r].pre), TRUE)
    \/ \E r \in 1..SgCalls : AfterPreflight(r)
    \/ \E r \in 1..SgCalls : OriginateOk(r)
    \/ \E sig \in {"none", "valid"}, q \in 1..SgCalls, cs \in CallStatuses :
          TwilioStatus(sig, q, cs)
    \/ \E k \in 1..SgConns : MediaConnect(k)
    \/ \E k \in 1..SgConns, q \in 1..SgCalls : MediaStart(k, q)
    \/ \E k \in 1..SgConns : MediaInitOk(k)
    \/ \E k \in 1..SgConns : MediaInitFail(k)
    \/ \E c \in 1..SgCalls : BridgeError(c)
    \/ \E cl \in 1..SgClients, q \in 1..SgCalls : ControlHangup(cl, q)
    \/ \E c \in 1..SgCalls : HangupDone(c)

InitSignal ==
    /\ Init0
    /\ obs = {"twilioStatus", "mediaInitOk"}
    /\ errorListener = TRUE
    /\ wording = PlainWording
    /\ deps = NoRun

SpecSignal == InitSignal /\ [][NextSignal]_vars

\* C23: a session's status never moves backward in the order created,
\* placing, ringing, connected, ended; in particular a ringing status webhook
\* that arrives for a connected session leaves it connected.
C23_StatusNeverRegresses ==
    [][/\ \A c \in CallIds : Rank(status'[c]) >= Rank(status[c])
       /\ (/\ last'.op = "twilioStatus" /\ last'.cs = "ringing"
           /\ last'.callId \in sessions
           /\ status[last'.callId] = "connected")
             => status'[last'.callId] = "connected"]_vars

\* a ringing webhook has just been answered for a call that is connected
C23_Witness ==
    /\ last.op = "twilioStatus" /\ last.cs = "ringing" /\ last.code = 200
    /\ last.callId \in sessions
    /\ status[last.callId] = "connected"
    /\ attached[last.callId]

\* C24: a status webhook reporting in-progress changes no session, and a
\* session becomes connected only in the step in which initializeMediaStream
\* resolves for a media-plane connection attached to it.
C24_ConnectedOnlyByMedia ==
    [][/\ (last'.op = "twilioStatus" /\ last'.cs = "in-progress")
             => UNCHANGED <<sessions, status, attached, callSid, nEnded, nCallEnded>>
       /\ \A c \in CallIds :
             (status'[c] = "connected" /\ status[c] # "connected")
                => /\ last'.op = "mediaInitOk" /\ last'.callId = c
                   /\ \E k \in Conns : /\ conn[k].st = "init" /\ conn[k].callId = c
                                        /\ conn'[k].st = "ok"]_vars

\* in-progress was reported for a ringing call with no media-plane connection
\* yet: it is still ringing
C24_Witness ==
    /\ last.op = "twilioStatus" /\ last.cs = "in-progress" /\ last.code = 200
    /\ last.callId \in sessions
    /\ status[last.callId] = "ringing"
    /\ ~attached[last.callId]

\* =========================================================== status claims
\* One call placed over POST /call with healthy providers, its status asked
\* for over GET /status/<callId> at any moment, status webhooks, and
\* media-plane connections announcing the call whose bridge attaches, fails
\* to initialize, or breaks.
NextStatus ==
    \/ Start
    \/ \E r \in 1..GsCalls : InitiateCall(r, 0)
    \/ \E r \in 1..GsCalls : PreflightResolves(r, FirstPending(req[r].pre), TRUE)
    \/ \E r \in 1..GsCalls : AfterPreflight(r)
    \/ \E r \in 1..GsCalls : OriginateOk(r)
    \/ \E q \in 1..GsCalls : CallStatusCheck(q)
    \/ \E q \in 1..GsCalls, cs \in CallStatuses : TwilioStatus("valid", q, cs)
    \/ \E k \in 1..GsConns : MediaConnect(k)
    \/ \E k \in 1..GsConns, q \in 1..GsCalls : MediaStart(k, q)
    \/ \E k \in 1..GsConns : MediaInitOk(k)
    \/ \E k \in 1..GsConns : MediaInitFail(k)
    \/ \E c \in 1..GsCalls : BridgeError(c)

InitStatus ==
    /\ Init0
    /\ obs = {"callStatus"}
    /\ errorListener = TRUE
    /\ wording = PlainWording
    /\ deps = NoRun

SpecStatus == InitStatus /\ [][NextStatus]_vars

\* C25: once POST /call has answered with a call identifier, a GET
\* /status/<callId> made while that call has not ended is answered 200 with a
\* status of placing or later, never 404.
C25_StatusKnownUntilEnded ==
    \A r \in Reqs :
        (/\ req[r].pc = "done" /\ req[r].origin = 0
         /\ last.op = "callStatus" /\ last.callId = req[r].callId
         /\ status[req[r].callId] # "ended")
            => /\ last.code = 200
               /\ last.cs \in {"placing", "ringing", "connected"}

\* ============================================================ reply claims
\* Control clients that connect, send initiate_call and may disconnect;
\* every preflight check passes or fails, and the origination request is
\* accepted or refused by the provider.
NextReply ==
    \/ Start
    \/ \E cl \in 1..RpClients : ControlConnect(cl)
    \/ \E cl \in 1..RpClients : ControlClose(cl)
    \/ \E r \in 1..RpReqs, o \in 1..RpClients : InitiateCall(r, o)
    \/ \E r \in 1..RpReqs, ok \in BOOLEAN :
          PreflightResolves(r, FirstPending(req[r].pre), ok)
    \/ \E r \in 1..RpReqs : AfterPreflight(r)
    \/ \E r \in 1..RpReqs : OriginateOk(r)
    \/ \E r \in 1..RpReqs : OriginateFail(r)

InitReply ==
    /\ Init0
    /\ obs = {"inbox", "preflight"}
    /\ errorListener = TRUE
    /\ wording = PlainWording
    /\ deps = NoRun

SpecReply == InitReply /\ [][NextReply]_vars

\* C30: when an initiate_call sent by a control client fails, the error
\* reply goes to that client and to no other, no call_started is announced,
\* and the request is over: no check is resolved a second time and a failed
\* request never starts a check or an origination again.
C30_FailureReportedToCallerOnly ==
    [][\A r \in Reqs :
         /\ (req[r].pc # "failed" /\ req'[r].pc = "failed" /\ req[r].origin # 0)
               => LET o == req[r].origin IN
                  /\ inbox'[o] = IF readyState[o] = "open"
                                 THEN Append(inbox[o], Msg("error", 0))
                                 ELSE inbox[o]
                  /\ \A d \in Clients \ {o} : inbox'[d] = inbox[d]
                  /\ nCallStarted' = nCallStarted
         /\ \A k \in CheckIdx :
               req[r].pre[k] # "pending" => req'[r].pre[k] = req[r].pre[k]
         /\ req[r].pc = "failed"
               => /\ req'[r] = req[r]
                  /\ req[r].callId # 0 => nCallStarted'[req[r].callId] = 0]_vars

\* the second client's initiate_call was refused by the provider: it holds
\* the error, the first client, still connected, received nothing
C30_Witness ==
    \E r \in Reqs :
        /\ req[r].pc = "failed" /\ req[r].err = "origination" /\ req[r].origin = 2
        /\ inbox[2] = <<Msg("error", 0)>>
        /\ 1 \in controlClients /\ readyState[1] = "open"
        /\ inbox[1] = <<>>

\* =========================================================== ordering claims
\* A call placed over POST /call with healthy checks, whose origination
\* request is answered sooner or later, well or not; meanwhile the provider
\* may ask for the call's markup, report any status for it, and open the
\* media-plane connection, whose bridge may attach and break.
NextOrder ==
    \/ Start
    \/ \E r \in 1..OrCalls : InitiateCall(r, 0)
    \/ \E r \in 1..OrCalls : PreflightResolves(r, FirstPending(req[r].pre), TRUE)
    \/ \E r \in 1..OrCalls : AfterPreflight(r)
    \/ \E r \in 1..OrCalls : OriginateOk(r)
    \/ \E r \in 1..OrCalls : OriginateFail(r)
    \/ \E sig \in Signatures, q \in 0..OrCalls : TwilioVoice(sig, q)
    \/ \E q \in 1..OrCalls, cs \in CallStatuses : TwilioStatus("valid", q, cs)
    \/ \E k \in 1..OrConns : MediaConnect(k)
    \/ \E k \in 1..OrConns, q \in 1..OrCalls : MediaStart(k, q)
    \/ \E k \in 1..OrConns : MediaInitOk(k)
    \/ \E c \in 1..OrCalls : BridgeError(c)

InitOrder ==
    /\ Init0
    /\ obs = {"twilioVoice", "mediaStart", "callStarted"}
    /\ errorListener = TRUE
    /\ wording = PlainWording
    /\ deps = NoRun

SpecOrder == InitOrder /\ [][NextOrder]_vars

C37_StartedCallIsLive ==
    (last.op = "callStarted") =>
        (last.callId \in sessions /\ status[last.callId] # "ended")

\* ======================================================= independence claims
\* Two calls placed over POST /call with healthy providers, commands, status
\* webhooks and media handshakes addressed to one or the other, and stop().
NextIndep ==
    \/ Start
    \/ \E cl \in 1..IdClients : ControlConnect(cl)
    \/ \E r \in 1..IdCalls : InitiateCall(r, 0)
    \/ \E r \in 1..IdCalls : PreflightResolves(r, FirstPending(req[r].pre), TRUE)
    \/ \E r \in 1..IdCalls : AfterPreflight(r)
    \/ \E r \in 1..IdCalls : OriginateOk(r)
    \/ \E cl \in 1..IdClients, q \in 1..IdCalls : ControlSpeak(cl, q)
    \/ \E cl \in 1..IdClients, q \in 1..IdCalls : ControlHangup(cl, q)
    \/ \E c \in 1..IdCalls : HangupDone(c)
    \/ \E q \in 1..IdCalls, cs \in {"ringing", "in-progress", "completed", "failed"} :
          TwilioStatus("valid", q, cs)
    \/ \E k \in 1..IdConns : MediaConnect(k)
    \/ \E k \in 1..IdConns, q \in 1..IdCalls : MediaStart(k, q)
    \/ \E k \in 1..IdConns : MediaInitOk(k)
    \/ \E k \in 1..IdConns : MediaInitFail(k)
    \/ StopBegin
    \/ StopHangupDone
    \/ StopClosed

\* the steps that are addressed to one call
Addressed == {"controlSpeak", "controlHangup", "hangupDone", "twilioStatus",
              "mediaStart", "mediaInitOk", "mediaInitFail"}

InitIndep ==
    /\ Init0
    /\ obs = Addressed
    /\ errorListener = TRUE
    /\ wording = PlainWording
    /\ deps = NoRun

SpecIndep == InitIndep /\ [][NextIndep]_vars

serverVars == <<server, stopPc, stopIter, sessions, status, callSid, attached, nextCallId,
                req, placed, hangups, controlClients, readyState, inbox, conn, nEnded,
                nCallEnded, nCallStarted, nError, errorListener, wording, last, obs>>

\* a run of preflightFfmpeg() on a host where the two commands end as v and d
PreflightFfmpeg(v, d) ==
    /\ deps.n < MaxRuns
    /\ deps' = [n |-> deps.n + 1, res |-> preflightFfmpeg(v, d)]
    /\ UNCHANGED serverVars

\* a run of preflightNgrok() on a host where the command ends as v
PreflightNgrok(v) ==
    /\ deps.n < MaxRuns
    /\ deps' = [n |-> deps.n + 1, res |-> preflightNgrok(v)]
    /\ UNCHANGED serverVars

\* The two local preflights, run on hosts of every kind: the command missing,
\* cut short, ended by a signal, exiting with 0 or not.
NextLocal ==
    \/ \E v \in SpawnOutcomes, d \in SpawnOutcomes : PreflightFfmpeg(v, d)
    \/ \E v \in SpawnOutcomes : PreflightNgrok(v)

InitLocal ==
    /\ Init0
    /\ obs = {}
    /\ errorListener = TRUE
    /\ wording = PlainWording
    /\ deps = NoRun

SpecLocal == InitLocal /\ [][NextLocal]_vars

\* the command was spawned, ran to its end and exited with status 0
Exits0(out) == out.error = "none" /\ out.status = "0"

\* C34: preflightFfmpeg is ok exactly when the version command exits 0 and
\* the MP3 decode smoke test exits 0; the decode test is run only after the
\* version command succeeded; a failing decode test gives a not-ok result
\* whose message says that ffmpeg cannot decode MP3.
C34_FfmpegOkIffBothPass ==
    deps.res.dependency = "ffmpeg" =>
        LET sp == deps.res.spawned IN
        /\ Len(sp) \in {1, 2}
        /\ sp[1].cmd = "ffmpeg -version"
        /\ Len(sp) = 2 <=> Exits0(sp[1].out)
        /\ Len(sp) = 2 => sp[2].cmd = "ffmpeg decode"
        /\ deps.res.ok <=> (Len(sp) = 2 /\ Exits0(sp[1].out) /\ Exits0(sp[2].out))
        /\ (Len(sp) = 2 /\ ~Exits0(sp[2].out))
              => (~deps.res.ok /\ deps.res.message = "cannot decode MP3")

\* ffmpeg is there, the decode of the sample exits with 1 and an error text
C34_Witness ==
    /\ deps.res.dependency = "ffmpeg"
    /\ Len(deps.res.spawned) = 2
    /\ Exits0(deps.res.spawned[1].out)
    /\ deps.res.spawned[2].out = [error |-> "none", status |-> "1", stderr |-> TRUE]
    /\ ~deps.res.ok
    /\ deps.res.message = "cannot decode MP3"

\* C35: for ffmpeg and for ngrok, a command that does not exist (ENOENT)
\* gives ok = false with the "is not installed" message, any other spawn
\* error or a non-zero exit gives ok = false with the "could not run"
\* message, and only an exit status of 0 gives ok = true.
C35_MissingOrBrokenCommand ==
    deps.res.dependency \in {"ffmpeg", "ngrok"} =>
        LET v == deps.res.spawned[1].out IN
        /\ v.error = "ENOENT"
              => (~deps.res.ok /\ deps.res.message = "is not installed")
        /\ v.error = "other"
              => (~deps.res.ok /\ deps.res.message = "could not run")
        /\ (v.error = "none" /\ v.status = "1")
              => (~deps.res.ok /\ deps.res.message = "could not run")
        /\ deps.res.ok => Exits0(v)

\* ngrok is not on the host
C35_Witness ==
    /\ deps.res.dependency = "ngrok"
    /\ deps.res.spawned[1].out.error = "ENOENT"
    /\ ~deps.res.ok
    /\ deps.res.message = "is not installed"

====
